---- MODULE Spec2Model ----
(***************************************************************************)
(* Buy-write dashboard (buy_write_app_v21claude.py): one run of the script *)
(* from the provider's data to the displayed table, followed by presses of *)
(* the what-if button.                                                     *)
(*                                                                         *)
(* Time.  A pandas Timestamp localized to America/New_York is an instant;  *)
(* it is modelled as a whole number of hours since 2022-01-01 00:00 UTC.   *)
(* Subtracting two timestamps gives the elapsed hours, `.days` is its      *)
(* floor division by 24, and adding pd.Timedelta(days=x) adds 24*x hours.  *)
(* Calendar dates are day numbers counted from 2022-01-01 (day 0).         *)
(*                                                                         *)
(* Money is in cents.  Percentages, floats in the script, are kept as      *)
(* exact reduced fractions <<numerator, denominator>>.                     *)
(***************************************************************************)
EXTENDS Integers, Sequences, FiniteSets, TLC

VARIABLES
    pc,                  \* position of the script
    message,             \* the st.error / st.warning shown before st.stop()
    purchase_date,       \* st.date_input "Date Purchased" (day number)
    price_hist,          \* hist['Close'] as returned by the provider
    div_series,          \* stock.dividends: sequence of [date, amount]
    available_exps,      \* stock.options: expiration dates (day numbers)
    stock_price, div_freq, yearly_dividend, one_year_ago, next_div_date, today,
    filtered_exps,       \* in-window expirations (timestamps)
    ei,                  \* index of the for-loop over filtered_exps
    option_exp, opt_chain, days_held,
    avg_days_between,    \* in hours (24 * the script's float number of days)
    last_known_div, projected_div_dates, next_div, single_dividend,
    all_options, all_debug_info,
    fetched,             \* expirations whose option chain was requested
    warnings,            \* expirations skipped with a warning
    filter_criteria, final_df,
    whatif, whatif_results

vars == <<pc, message, purchase_date, price_hist, div_series, available_exps,
          stock_price, div_freq, yearly_dividend, one_year_ago,
          next_div_date, today, filtered_exps, ei, option_exp, opt_chain, days_held,
          avg_days_between, last_known_div, projected_div_dates, next_div,
          single_dividend, all_options, all_debug_info, fetched, warnings,
          filter_criteria, final_df, whatif, whatif_results>>

-----------------------------------------------------------------------------
(* Bounds of the model *)

MaxHist == 4     \* records in the dividend history
MaxExps == 2     \* expirations listed by the provider
MaxChain == 2    \* calls in one option chain
MaxProj == 11    \* projected dates kept before the model stops following the loop

-----------------------------------------------------------------------------
(* Calendar: pd.Timestamp(date).tz_localize("America/New_York") *)

\* A name not assigned yet, and Python's None, among whole numbers (dates,
\* instants and amounts of the model are never negative).
Undefined == 0 - 1
None == 0 - 2

CumDays == <<0, 31, 59, 90, 120, 151, 181, 212, 243, 273, 304, 334>>

YearStart(y) == 365 * (y - 2022) + (IF y > 2024 THEN 1 ELSE 0)

DayNum(y, m, d) ==
    YearStart(y) + CumDays[m] + (IF y = 2024 /\ m > 2 THEN 1 ELSE 0) + d - 1

\* US daylight saving time: from the second Sunday of March, 02:00, to the
\* first Sunday of November, 02:00.
DstYears == 2022..2026
DstStart == [y \in DstYears |->
    CASE y = 2022 -> DayNum(2022, 3, 13) [] y = 2023 -> DayNum(2023, 3, 12)
      [] y = 2024 -> DayNum(2024, 3, 10) [] y = 2025 -> DayNum(2025, 3, 9)
      [] y = 2026 -> DayNum(2026, 3, 8)]
DstEnd == [y \in DstYears |->
    CASE y = 2022 -> DayNum(2022, 11, 6) [] y = 2023 -> DayNum(2023, 11, 5)
      [] y = 2024 -> DayNum(2024, 11, 3) [] y = 2025 -> DayNum(2025, 11, 2)
      [] y = 2026 -> DayNum(2026, 11, 1)]

\* Midnight of day d is on daylight time (UTC-4) when the switch at 02:00 of
\* the start day is past and the one at 02:00 of the end day is not.
IsEDT(d) == \E y \in DstYears : DstStart[y] < d /\ d <= DstEnd[y]

\* tz_localize: the instant of local midnight of day d.
Localize(d) == 24 * d + (IF IsEDT(d) THEN 4 ELSE 5)

\* Timedelta.days: whole days of an elapsed time, rounded down.
Days(td) == td \div 24

\* Timestamp.date(): the local calendar day of an instant.
DateOf(ts) ==
    LET d == (ts - 5) \div 24
    IN  IF Localize(d + 1) <= ts THEN d + 1 ELSE d

\* date - pd.DateOffset(years=1): the same calendar day one year earlier
\* (Feb 29 becomes Feb 28), for days from 2023-01-01 to 2025-02-28.
YearBefore(d) ==
    IF DayNum(2024, 2, 29) <= d /\ d <= DayNum(2025, 2, 28) THEN d - 366
    ELSE d - 365

-----------------------------------------------------------------------------
(* What the user and the provider can supply *)

PurchaseDates == {DayNum(2024, 1, 1), DayNum(2024, 4, 1)}

PriceHistories == {<<>>, <<7900, 8000>>}

\* Dividend amount per payment, in cents.
DivRecord(d) == [date |-> Localize(d), amount |-> 80]

\* The provider's record of payments; a dividend history is a run of
\* consecutive records of it.  Dates are strictly increasing.
DivPool == <<DayNum(2022, 6, 15), DayNum(2023, 3, 17), DayNum(2023, 6, 16),
             DayNum(2023, 9, 15), DayNum(2023, 12, 15), DayNum(2024, 3, 10),
             DayNum(2024, 3, 11)>>

DivHistories ==
    {<<>>} \cup
    {[i \in 1..n |-> DivRecord(DivPool[s + i - 1])] :
        <<s, n>> \in {p \in (1..Len(DivPool)) \X (1..MaxHist) :
                        p[1] + p[2] - 1 <= Len(DivPool)}}

ExpPool == {DayNum(2024, 6, 29), DayNum(2024, 10, 1), DayNum(2025, 1, 17),
            DayNum(2025, 6, 25)}

IsInjective(s) == \A i, j \in 1..Len(s) : i # j => s[i] # s[j]

ExpLists ==
    UNION {{s \in [1..n -> ExpPool] : IsInjective(s)} : n \in 0..MaxExps}


\* Calls the provider can quote: [strike, bid, ask, openInterest], in cents.
OptionPool == <<[strike |-> 4000, bid |-> 3900, ask |-> 4100, openInterest |-> 10],
                [strike |-> 6000, bid |-> 2500, ask |-> 2700, openInterest |-> 250],
                [strike |-> 7200, bid |-> 500, ask |-> 700, openInterest |-> 40]>>

\* stock.option_chain(...).calls: the quoted calls by increasing strike.
Chains ==
    {s \in UNION {[1..n -> 1..Len(OptionPool)] : n \in 0..MaxChain} :
        \A i \in 1..Len(s) : i > 1 => s[i - 1] < s[i]}

ChainOf(s) == [i \in 1..Len(s) |-> OptionPool[s[i]]]

\* A chain request raises, or returns a (possibly empty) chain.
FetchOutcomes ==
    {[raised |-> TRUE, calls |-> <<>>]} \cup
    {[raised |-> FALSE, calls |-> ChainOf(s)] : s \in Chains}

\* The what-if form: stock price, strike, option price and expiration date.
\* The expiration is any listed expiration, the purchase date itself or a
\* day before it; one entry has an option price equal to the stock price.
WhatIfForms(purchased) ==
    {[stock_price |-> 8000, strike |-> 6000, option_price |-> 2600,
      expiration |-> e] : e \in ExpPool \cup {purchased, DayNum(2023, 12, 1)}}
    \cup {[stock_price |-> 8000, strike |-> 6000, option_price |-> 8000,
           expiration |-> DayNum(2024, 10, 1)]}

-----------------------------------------------------------------------------
(* Arithmetic *)

shares == 100

Max(a, b) == IF a >= b THEN a ELSE b
Abs(a) == IF a < 0 THEN -a ELSE a
Sign(a) == IF a > 0 THEN 1 ELSE IF a < 0 THEN -1 ELSE 0

RECURSIVE GCD(_, _)
GCD(a, b) == IF b = 0 THEN a ELSE GCD(b, a % b)

\* The float n / d as a reduced fraction with a positive denominator; a zero
\* denominator gives numpy's inf, -inf and nan as <<1, 0>>, <<-1, 0>>, <<0, 0>>.
Frac(n, d) ==
    IF d = 0 THEN <<Sign(n), 0>>
    ELSE LET g == GCD(Abs(n), Abs(d))
         IN  <<(Sign(d) * n) \div g, Abs(d) \div g>>

\* f > k for a float f and a whole number k.
FracGt(f, k) == IF f[2] = 0 THEN f[1] = 1 ELSE f[1] > k * f[2]

\* f"{x:.2f}%": the float in hundredths, rounded to nearest.
Format2(f) ==
    IF f[2] = 0 THEN <<"nonfinite", f[1]>>
    ELSE (200 * f[1] + f[2]) \div (2 * f[2])

RECURSIVE SumSeq(_)
SumSeq(s) == IF s = <<>> THEN 0 ELSE Head(s) + SumSeq(Tail(s))

RECURSIVE Concat(_)
Concat(ss) == IF ss = <<>> THEN <<>> ELSE Head(ss) \o Concat(Tail(ss))

-----------------------------------------------------------------------------
(* The script, top to bottom *)

Init ==
    /\ pc = "price"
    /\ message = ""
    /\ purchase_date \in PurchaseDates
    /\ price_hist \in PriceHistories
    /\ div_series \in DivHistories
    /\ available_exps \in ExpLists
    /\ stock_price = Undefined
    /\ div_freq = Undefined
    /\ yearly_dividend = Undefined
    /\ one_year_ago = Undefined
    /\ next_div_date = Undefined
    /\ today = Undefined
    /\ filtered_exps = <<>>
    /\ ei = 0
    /\ option_exp = Undefined
    /\ opt_chain = <<>>
    /\ days_held = Undefined
    /\ avg_days_between = Undefined
    /\ last_known_div = Undefined
    /\ projected_div_dates = <<>>
    /\ next_div = Undefined
    /\ single_dividend = Undefined
    /\ all_options = <<>>
    /\ all_debug_info = <<>>
    /\ fetched = <<>>
    /\ warnings = <<>>
    /\ filter_criteria = FALSE
    /\ final_df = <<>>
    /\ whatif = [status |-> "none"]
    /\ whatif_results = [status |-> "none"]

\* Lines 20-25: the last close on or before the purchase date.
LoadPrice ==
    /\ pc = "price"
    /\ IF price_hist = <<>>
       THEN /\ pc' = "stopped"
            /\ message' = "No stock price data available for the selected purchase date."
            /\ UNCHANGED stock_price
       ELSE /\ pc' = "dividends"
            /\ stock_price' = price_hist[Len(price_hist)]
            /\ UNCHANGED message
    /\ UNCHANGED <<purchase_date, price_hist, div_series, available_exps,
                   div_freq, yearly_dividend, one_year_ago, next_div_date,
                   today, filtered_exps, ei, option_exp, opt_chain, days_held,
                   avg_days_between, last_known_div, projected_div_dates,
                   next_div, single_dividend, all_options, all_debug_info,
                   fetched, warnings, filter_criteria, final_df, whatif,
                   whatif_results>>

\* div_series[div_series.index >= one_year_ago]
RecentDivs(series, since) == SelectSeq(series, LAMBDA r : r.date >= since)

\* Lines 36 and 52: the number of payments in the trailing year, 1 if none.
DivFreq(recent) == IF Len(recent) > 0 THEN Len(recent) ELSE 1

\* Lines 42-50: the first payment after the purchase date, or, when there is
\* none, the last payment plus 30, 180 or 90 calendar days.
NextDivDate(series, t, freq) ==
    LET later == {series[i].date : i \in 1..Len(series)} \cap
                 {d \in {series[i].date : i \in 1..Len(series)} : d > t}
        last_div == CHOOSE d \in {series[i].date : i \in 1..Len(series)} :
                        \A j \in 1..Len(series) : series[j].date <= d
        offset == IF freq >= 12 THEN 30 ELSE IF freq = 6 THEN 180 ELSE 90
    IN  IF later # {}
        THEN CHOOSE d \in later : \A e \in later : d <= e
        ELSE Localize(DateOf(last_div) + offset)

\* Lines 27-57: frequency and yearly total from the trailing twelve months.
\* one_year_ago is assigned only when the series is not empty.
DividendSeries ==
    /\ pc = "dividends"
    /\ IF div_series # <<>>
       THEN LET since == Localize(YearBefore(purchase_date))
                recent_divs == RecentDivs(div_series, since)
            IN  /\ one_year_ago' = since
                /\ div_freq' = DivFreq(recent_divs)
                /\ yearly_dividend' = SumSeq([i \in 1..Len(recent_divs) |->
                                                recent_divs[i].amount])
                /\ next_div_date' = NextDivDate(div_series,
                                        Localize(purchase_date),
                                        DivFreq(recent_divs))
       ELSE /\ div_freq' = 1
            /\ yearly_dividend' = 0
            /\ next_div_date' = None
            /\ UNCHANGED one_year_ago
    /\ today' = Localize(purchase_date)
    /\ pc' = "expirations"
    /\ UNCHANGED <<message, purchase_date, price_hist, div_series,
                   available_exps, stock_price, filtered_exps, ei, option_exp,
                   opt_chain, days_held, avg_days_between, last_known_div,
                   projected_div_dates, next_div, single_dividend,
                   all_options, all_debug_info, fetched, warnings,
                   filter_criteria, final_df, whatif, whatif_results>>

\* Line 67: 6*30 <= (exp_date - today).days <= 18*30.
InWindow(exp_date, t) ==
    6 * 30 <= Days(exp_date - t) /\ Days(exp_date - t) <= 18 * 30

\* Lines 62-72: the expirations 6 to 18 months out, in the provider's order.
FilterExpirations ==
    /\ pc = "expirations"
    /\ LET exps == [i \in 1..Len(available_exps) |-> Localize(available_exps[i])]
           kept == SelectSeq(exps, LAMBDA e : InWindow(e, today))
       IN  /\ filtered_exps' = kept
           /\ IF kept = <<>>
              THEN /\ pc' = "stopped"
                   /\ message' = "No expirations available between 6 and 18 months from purchase date."
                   /\ UNCHANGED ei
              ELSE /\ pc' = "loop"
                   /\ ei' = 1
                   /\ UNCHANGED message
    /\ UNCHANGED <<purchase_date, price_hist, div_series, available_exps,
                   stock_price, div_freq, yearly_dividend, one_year_ago,
                   next_div_date, today, option_exp, opt_chain, days_held, avg_days_between,
                   last_known_div, projected_div_dates, next_div,
                   single_dividend, all_options, all_debug_info, fetched,
                   warnings, filter_criteria, final_df, whatif,
                   whatif_results>>


\* Lines 87-89: strikes from 0.6 to 0.9 of the stock price, bounds included.
ItmStrikes(chain, price) ==
    SelectSeq(chain, LAMBDA o : 10 * o.strike >= 6 * price
                                /\ 10 * o.strike <= 9 * price)

\* Lines 114-120: the mean gap of the trailing-year payments in whole days,
\* or 365.25 / div_freq when fewer than two; the result is in hours.  The
\* mean of up to four gaps is a whole number of hours (24 is divisible by
\* 1, 2, 3 and 4), and the fallback is only taken with div_freq = 1.
AvgDaysBetween(recent_div_dates, freq) ==
    IF Len(recent_div_dates) >= 2
    THEN LET date_diffs == [i \in 1..(Len(recent_div_dates) - 1) |->
                 Days(recent_div_dates[i + 1] - recent_div_dates[i])]
         IN  (24 * SumSeq(date_diffs)) \div Len(date_diffs)
    ELSE IF freq > 0 THEN (24 * 36525) \div (100 * freq)
         ELSE (24 * 36525) \div 100

\* div_series.index.max()
LastKnownDiv(series) ==
    CHOOSE d \in {series[i].date : i \in 1..Len(series)} :
        \A j \in 1..Len(series) : series[j].date <= d

\* Line 128: the condition of the projection loop.
ProjectMore(nd, exp) == nd <= exp

\* Line 101: days_held = max((option_exp - today).days, 1)
DaysHeld(exp, t) == Max(Days(exp - t), 1)

\* WhatIfDaysHeld without the floor of 1.
WhatIfDaysHeldNoFloor(exp_ts, t) == Days(exp_ts - t)

\* Line 327: whatif_days_held = max((whatif_exp_ts - today).days, 1)
WhatIfDaysHeld(exp_ts, t) == Max(Days(exp_ts - t), 1)

\* Whether iteration i was the last of the for-loop.
AfterIteration(i) == IF i >= Len(filtered_exps) THEN "combine" ELSE "loop"

\* Lines 75-125: one iteration of the loop up to the projection: the chain is
\* requested and the expiration skipped if the request raises, the chain is
\* empty or no strike is in the band.  Otherwise the day count and the
\* dividend cadence are computed.  Line 112 reads one_year_ago, which is
\* unassigned when the dividend series is empty: the script then ends with
\* a NameError.
FetchChain ==
    /\ pc = "loop"
    /\ \E outcome \in FetchOutcomes :
        LET exp == filtered_exps[ei]
            itm == IF outcome.raised THEN <<>>
                   ELSE ItmStrikes(outcome.calls, stock_price)
        IN  /\ option_exp' = exp
            /\ fetched' = Append(fetched, exp)
            /\ IF itm = <<>>
               THEN /\ warnings' = Append(warnings, exp)
                    /\ pc' = AfterIteration(ei)
                    /\ ei' = ei + 1
                    /\ UNCHANGED <<message, opt_chain, days_held,
                                   avg_days_between, last_known_div,
                                   projected_div_dates, next_div>>
               ELSE /\ opt_chain' = itm
                    /\ days_held' = DaysHeld(exp, today)
                    /\ UNCHANGED <<warnings, ei>>
                    /\ IF one_year_ago = Undefined
                       THEN /\ pc' = "crashed"
                            /\ message' = "NameError: name 'one_year_ago' is not defined"
                            /\ UNCHANGED <<avg_days_between, last_known_div,
                                           projected_div_dates, next_div>>
                       ELSE LET recent == RecentDivs(div_series, one_year_ago)
                                recent_div_dates ==
                                    [i \in 1..Len(recent) |-> recent[i].date]
                                avg == AvgDaysBetween(recent_div_dates, div_freq)
                                last == LastKnownDiv(div_series)
                            IN  /\ avg_days_between' = avg
                                /\ last_known_div' = last
                                /\ projected_div_dates' = <<>>
                                /\ next_div' = last + avg
                                /\ pc' = "project"
                                /\ UNCHANGED message
    /\ UNCHANGED <<purchase_date, price_hist, div_series, available_exps,
                   stock_price, div_freq, yearly_dividend, one_year_ago,
                   next_div_date, today, filtered_exps, single_dividend, all_options,
                   all_debug_info, filter_criteria, final_df, whatif,
                   whatif_results>>

\* Lines 128-130: one turn of the while loop.
ProjectStep ==
    /\ pc = "project"
    /\ ProjectMore(next_div, option_exp)
    /\ Len(projected_div_dates) < MaxProj
    /\ projected_div_dates' = Append(projected_div_dates, next_div)
    /\ next_div' = next_div + avg_days_between
    /\ UNCHANGED <<pc, message, purchase_date, price_hist, div_series,
                   available_exps, stock_price, div_freq, yearly_dividend,
                   one_year_ago, next_div_date, today, filtered_exps, ei,
                   option_exp,
                   opt_chain, days_held, avg_days_between, last_known_div,
                   single_dividend, all_options, all_debug_info, fetched,
                   warnings, filter_criteria, final_df, whatif,
                   whatif_results>>


\* Lines 133 and 330: the projected dates after the purchase date and on or
\* before the expiration.
DivsInPeriod(projected, t, exp) ==
    SelectSeq(projected, LAMBDA d : d > t /\ d <= exp)

\* Line 137: single_dividend = yearly_dividend / div_freq.  Every payment of
\* the provider's record has the same amount, so the division is exact.
SingleDividend(yearly, freq) == IF freq > 0 THEN yearly \div freq ELSE 0

\* EarlyCall counting the payments on or before the call date, the last one
\* included.
EarlyCallCountsLast(divs_in_period, t, exp, held) ==
    IF Len(divs_in_period) > 0
    THEN LET early_call_date == divs_in_period[Len(divs_in_period)]
         IN  [last_div_date |-> divs_in_period[Len(divs_in_period)],
              early_call_date |-> early_call_date,
              expected_payments_early |->
                  Len(SelectSeq(divs_in_period, LAMBDA d : d <= early_call_date)),
              days_held_early |-> Max(Days(early_call_date - t), 1)]
    ELSE [last_div_date |-> None,
          early_call_date |-> exp,
          expected_payments_early |-> 0,
          days_held_early |-> held]

\* EarlyCall with the day count of the empty case left at 1 instead of the
\* hold scenario's.
EarlyCallDayLeftAtOne(divs_in_period, t, exp, held) ==
    IF Len(divs_in_period) > 0
    THEN LET early_call_date == divs_in_period[Len(divs_in_period)]
         IN  [last_div_date |-> divs_in_period[Len(divs_in_period)],
              early_call_date |-> early_call_date,
              expected_payments_early |->
                  Len(SelectSeq(divs_in_period, LAMBDA d : d < early_call_date)),
              days_held_early |-> Max(Days(early_call_date - t), 1)]
    ELSE [last_div_date |-> None,
          early_call_date |-> exp,
          expected_payments_early |-> 0,
          days_held_early |-> 1]

\* Lines 159-177: the call date is the last in-window projected date, the
\* payments those strictly before it; with no date in the window the
\* scenario is the hold scenario.
EarlyCall(divs_in_period, t, exp, held) ==
    IF Len(divs_in_period) > 0
    THEN LET early_call_date == divs_in_period[Len(divs_in_period)]
         IN  [last_div_date |-> divs_in_period[Len(divs_in_period)],
              early_call_date |-> early_call_date,
              expected_payments_early |->
                  Len(SelectSeq(divs_in_period, LAMBDA d : d < early_call_date)),
              days_held_early |-> Max(Days(early_call_date - t), 1)]
    ELSE [last_div_date |-> None,
          early_call_date |-> exp,
          expected_payments_early |-> 0,
          days_held_early |-> held]

\* Lines 153-155 and 189-191: cash flow, total % and annualized % of one call.
DividendPlusPremium(premium, divs) == (premium * shares) + (divs * shares)
TotalPct(cash, net_debit) == Frac(100 * cash, shares * net_debit)
AnnualizedPct(total, days) == Frac(total[1] * 365, total[2] * days)

\* Lines 95-97 and 197-221: the row of one call of the chain.
CombinedRow(o, exp, n_hold, n_early, days, days_early) ==
    LET option_price == (o.bid + o.ask) \div 2
        net_debit == stock_price - option_price
        option_premium == o.strike + option_price - stock_price
        single == SingleDividend(yearly_dividend, div_freq)
        hold_cash == DividendPlusPremium(option_premium, single * n_hold)
        early_cash == DividendPlusPremium(option_premium, single * n_early)
    IN  [date_purchased |-> DateOf(today),
         stock_price |-> stock_price,
         forward_dividend |-> yearly_dividend,
         dividend_frequency |-> div_freq,
         next_dividend_date |-> IF next_div_date = None THEN None
                                ELSE DateOf(next_div_date),
         option_expiration |-> DateOf(exp),
         strike |-> o.strike,
         option_price |-> option_price,
         net_debit |-> net_debit,
         option_premium |-> option_premium,
         open_interest |-> o.openInterest,
         premium_minus_single_dividend |-> option_premium - single,
         hold_payments |-> n_hold,
         hold_cash |-> hold_cash,
         hold_total |-> TotalPct(hold_cash, net_debit),
         hold_annualized |-> AnnualizedPct(TotalPct(hold_cash, net_debit), days),
         early_payments |-> n_early,
         early_cash |-> early_cash,
         early_total |-> TotalPct(early_cash, net_debit),
         early_annualized |->
             AnnualizedPct(TotalPct(early_cash, net_debit), days_early)]

\* Lines 132-224: the rest of the iteration, once the projection loop has
\* ended: both scenarios for every call kept, appended to the run's results.
Scenarios ==
    /\ pc = "project"
    /\ ~ProjectMore(next_div, option_exp)
    /\ LET divs_in_period == DivsInPeriod(projected_div_dates, today, option_exp)
           expected_div_payments == Len(divs_in_period)
           single == SingleDividend(yearly_dividend, div_freq)
           early == EarlyCall(divs_in_period, today, option_exp, days_held)
           combined == [i \in 1..Len(opt_chain) |->
                          CombinedRow(opt_chain[i], option_exp,
                                      expected_div_payments,
                                      early.expected_payments_early,
                                      days_held, early.days_held_early)]
           debug_info == [option_exp |-> option_exp,
                          last_known_div |-> last_known_div,
                          avg_days_between |-> avg_days_between,
                          divs_in_period |-> divs_in_period,
                          expected_div_payments |-> expected_div_payments,
                          single_dividend |-> single,
                          divs_during_period |-> single * expected_div_payments,
                          early_call |-> early]
       IN  /\ single_dividend' = single
           /\ all_options' = Append(all_options, combined)
           /\ all_debug_info' = Append(all_debug_info, debug_info)
    /\ pc' = AfterIteration(ei)
    /\ ei' = ei + 1
    /\ UNCHANGED <<message, purchase_date, price_hist, div_series,
                   available_exps, stock_price, div_freq, yearly_dividend,
                   one_year_ago, next_div_date, today, filtered_exps,
                   option_exp, opt_chain, days_held, avg_days_between,
                   last_known_div, projected_div_dates, next_div, fetched,
                   warnings, filter_criteria, final_df, whatif,
                   whatif_results>>


\* MeetCriteria without the test of the annualized %.
MeetCriteriaTotalOnly(option_premium, hold_total, hold_annualized) ==
    /\ option_premium > 0
    /\ FracGt(hold_total, 10)

\* Lines 235-239 and 357: the criteria, on the unformatted numbers.
MeetCriteria(option_premium, hold_total, hold_annualized) ==
    /\ option_premium > 0
    /\ FracGt(hold_total, 10)
    /\ FracGt(hold_annualized, 10)

\* Lines 235-252: the flag and the sort key are added, then the percentage
\* columns become text with two decimals.
FinalRow(r) ==
    [r EXCEPT !.hold_total = Format2(r.hold_total),
              !.hold_annualized = Format2(r.hold_annualized),
              !.early_total = Format2(r.early_total),
              !.early_annualized = Format2(r.early_annualized)]
    @@ [meet_criteria |-> MeetCriteria(r.option_premium, r.hold_total,
                                       r.hold_annualized),
        hold_total_numeric |-> r.hold_total]

\* Lines 255-256: the rows kept for display.
ApplyFilter(df, only_meeting) ==
    IF only_meeting THEN SelectSeq(df, LAMBDA r : r.meet_criteria = TRUE)
    ELSE df

\* Lines 226-261: the frames of all expirations are concatenated; the run
\* stops when there is none, or when the filter leaves no row.  The checkbox
\* of line 15 is read here for the first time.
Combine ==
    /\ pc = "combine"
    /\ \E checkbox \in BOOLEAN :
        /\ filter_criteria' = checkbox
        /\ IF all_options = <<>>
           THEN /\ pc' = "stopped"
                /\ message' = "No ITM options 10-40% below stock price found in the 6-18 month window."
                /\ UNCHANGED final_df
           ELSE LET concat == Concat(all_options)
                    flagged == [i \in 1..Len(concat) |-> FinalRow(concat[i])]
                    shown == ApplyFilter(flagged, checkbox)
                IN  /\ final_df' = shown
                    /\ IF shown = <<>>
                       THEN /\ pc' = "stopped"
                            /\ message' = "No options meet the criteria. Try unchecking the filter."
                       ELSE /\ pc' = "displayed"
                            /\ UNCHANGED message
    /\ UNCHANGED <<purchase_date, price_hist, div_series, available_exps,
                   stock_price, div_freq, yearly_dividend, one_year_ago,
                   next_div_date, today, filtered_exps, ei, option_exp,
                   opt_chain, days_held, avg_days_between, last_known_div,
                   projected_div_dates, next_div, single_dividend,
                   all_options, all_debug_info, fetched, warnings, whatif,
                   whatif_results>>

\* Lines 330-331: the what-if payments are counted on projected_div_dates as
\* the last processed expiration left it.
WhatIfDivsInPeriod(exp_ts) == DivsInPeriod(projected_div_dates, today, exp_ts)

\* Lines 340-350: the what-if early call.
WhatIfEarly(divs_in_period, held) ==
    IF Len(divs_in_period) > 0
    THEN LET whatif_early_call == divs_in_period[Len(divs_in_period)]
         IN  [whatif_early_payments |->
                  Len(SelectSeq(divs_in_period, LAMBDA d : d < whatif_early_call)),
              whatif_days_early |-> Max(Days(whatif_early_call - today), 1)]
    ELSE [whatif_early_payments |-> 0, whatif_days_early |-> held]

\* Lines 319-396: the what-if button.  The quotient of line 336 is a Python
\* float division: a zero net debit raises ZeroDivisionError.  The press
\* re-runs the script on the same data, so the handler acts on the state the
\* run has left and nothing follows it in that run.
WhatIf ==
    /\ pc = "displayed"
    /\ pc' = "whatif"
    /\ \E q \in WhatIfForms(purchase_date) :
        LET whatif_expiration == q.expiration
            whatif_net_debit == q.stock_price - q.option_price
            whatif_option_premium == q.strike + q.option_price - q.stock_price
            whatif_exp_ts == Localize(whatif_expiration)
            whatif_days_held == WhatIfDaysHeld(whatif_exp_ts, today)
            whatif_divs_in_period == WhatIfDivsInPeriod(whatif_exp_ts)
            whatif_expected_payments == Len(whatif_divs_in_period)
            whatif_hold_total ==
                DividendPlusPremium(whatif_option_premium,
                                    single_dividend * whatif_expected_payments)
            whatif_hold_pct == TotalPct(whatif_hold_total, whatif_net_debit)
            whatif_hold_ann == AnnualizedPct(whatif_hold_pct, whatif_days_held)
            early == WhatIfEarly(whatif_divs_in_period, whatif_days_held)
            whatif_early_total ==
                DividendPlusPremium(whatif_option_premium,
                                    single_dividend * early.whatif_early_payments)
            whatif_early_pct == TotalPct(whatif_early_total, whatif_net_debit)
            whatif_early_ann ==
                AnnualizedPct(whatif_early_pct, early.whatif_days_early)
        IN  /\ whatif' = [status |-> "pressed",
                          stock_price |-> q.stock_price,
                          strike |-> q.strike,
                          option_price |-> q.option_price,
                          expiration |-> whatif_expiration,
                          whatif_days_held |-> whatif_days_held,
                          whatif_days_early |-> early.whatif_days_early]
            /\ IF shares * whatif_net_debit = 0
               THEN whatif_results' = [status |-> "ZeroDivisionError"]
               ELSE whatif_results' =
                     [status |-> "shown",
                      meet_criteria |-> MeetCriteria(whatif_option_premium,
                                            whatif_hold_pct, whatif_hold_ann),
                      date_purchased |-> DateOf(today),
                      stock_price |-> q.stock_price,
                      forward_dividend |-> yearly_dividend,
                      dividend_frequency |-> div_freq,
                      option_expiration |-> whatif_expiration,
                      strike |-> q.strike,
                      option_price |-> q.option_price,
                      net_debit |-> whatif_net_debit,
                      option_premium |-> whatif_option_premium,
                      hold_payments |-> whatif_expected_payments,
                      hold_cash |-> whatif_hold_total,
                      hold_total |-> Format2(whatif_hold_pct),
                      hold_annualized |-> Format2(whatif_hold_ann),
                      early_payments |-> early.whatif_early_payments,
                      early_cash |-> whatif_early_total,
                      early_total |-> Format2(whatif_early_pct),
                      early_annualized |-> Format2(whatif_early_ann)]
    /\ UNCHANGED <<message, purchase_date, price_hist, div_series,
                   available_exps, stock_price, div_freq, yearly_dividend,
                   one_year_ago, next_div_date, today, filtered_exps, ei,
                   option_exp, opt_chain, days_held, avg_days_between,
                   last_known_div, projected_div_dates, next_div,
                   single_dividend, all_options, all_debug_info, fetched,
                   warnings, filter_criteria, final_df>>

Next ==
    \/ LoadPrice
    \/ DividendSeries
    \/ FilterExpirations
    \/ FetchChain
    \/ ProjectStep
    \/ Scenarios
    \/ Combine
    \/ WhatIf

Spec == Init /\ [][Next]_vars


\* The cap on the projected list never cuts a projection that would end:
\* only a loop whose interval is zero reaches it with more to append.
ProjectionCapIsSlack ==
    (pc = "project" /\ Len(projected_div_dates) = MaxProj
        /\ ProjectMore(next_div, option_exp)) => avg_days_between = 0

-----------------------------------------------------------------------------
(* Dividend cadence and projection *)

\* C1 (cadence floor): whatever the dividend history and the purchase date,
\* an expiration that passes the screens reaches the projection with
\* div_freq >= 1 and a positive average interval, and the run does not fail
\* on the way; an empty history gets there with div_freq = 1.
C1_CadenceFloor ==
    /\ pc # "crashed"
    /\ pc = "project" => div_freq >= 1 /\ avg_days_between > 0

\* C1, the part the code keeps: div_freq is at least 1 from the moment the
\* dividend series has been read.
C1_FrequencyFloor == div_freq # Undefined => div_freq >= 1

\* C1: the run of an empty history that gets a chain with a strike in the band.
C1_EmptyHistoryFails == pc = "crashed" /\ div_series = <<>> /\ div_freq = 1

\* C1: two payments on consecutive calendar days are less than 24 hours apart
\* across the start of daylight time, and their gap counts as 0 days.
C1_ZeroInterval ==
    pc = "project" /\ avg_days_between = 0 /\ Len(div_series) = 2
    /\ div_series[1].date < div_series[2].date

\* C2 (projection termination): every turn of the projection loop moves
\* next_div strictly forward, so that the loop ends.
C2_ProjectionAdvances == [][ProjectStep => next_div' > next_div]_vars

\* C2: a projection loop that has appended MaxProj dates and still has
\* next_div <= option_exp.
C2_LoopStillRunning ==
    pc = "project" /\ Len(projected_div_dates) = MaxProj
    /\ ProjectMore(next_div, option_exp)

\* C3 (projection monotonicity and bound): at every turn of the projection
\* loop and at its end the projected dates are strictly increasing, all
\* after the last known dividend and none after the expiration.
C3_ProjectionMonotone ==
    pc = "project" =>
        /\ \A i \in 1..Len(projected_div_dates) :
            /\ projected_div_dates[i] > last_known_div
            /\ projected_div_dates[i] <= option_exp
        /\ \A i \in 2..Len(projected_div_dates) :
            projected_div_dates[i - 1] < projected_div_dates[i]

\* C3, the part that holds for every interval: no projected date is after
\* the expiration.
C3_ProjectionBounded ==
    pc = "project" =>
        \A i \in 1..Len(projected_div_dates) :
            projected_div_dates[i] <= option_exp

\* C3: with a positive interval the claim holds.
C3_MonotoneWhenPositive ==
    (pc = "project" /\ avg_days_between > 0) => C3_ProjectionMonotone

-----------------------------------------------------------------------------
(* What-if reuse *)

\* The run has reached its table (and possibly a what-if press).
TableShown == pc \in {"displayed", "whatif"}

\* C4 (what-if reuse): after any run, in whatever order the provider lists
\* the expirations, a what-if evaluation at the expiration of a candidate row
\* has that row's Hold number of payments.
C4_WhatIfReuse ==
    whatif_results.status = "shown" =>
        \A i \in 1..Len(final_df) :
            final_df[i].option_expiration = whatif_results.option_expiration
                => whatif_results.hold_payments = final_df[i].hold_payments

\* The provider lists the expirations by increasing date.
ListedAscending ==
    \A i \in 2..Len(available_exps) : available_exps[i - 1] < available_exps[i]

\* C4, what the code keeps: the counts agree when the expirations were
\* listed by increasing date.
C4_WhatIfReuseAscending == ListedAscending => C4_WhatIfReuse

\* C4: a what-if press at the expiration of a displayed row, after a run of
\* two processed expirations.
C4_WhatIfAtCandidate ==
    /\ whatif_results.status = "shown"
    /\ Len(all_options) = 2
    /\ \E i \in 1..Len(final_df) :
        /\ final_df[i].option_expiration = whatif_results.option_expiration
        /\ final_df[i].hold_payments > 0

-----------------------------------------------------------------------------
(* The loop over the expirations *)

\* The expirations of the loop that were not skipped, in iteration order.
Processed(exps, skipped) ==
    SelectSeq(exps, LAMBDA e : \A j \in 1..Len(skipped) : skipped[j] # e)

\* The for-loop has ended.
LoopEnded ==
    \/ pc \in {"combine", "displayed", "whatif"}
    \/ pc = "stopped" /\ filtered_exps # <<>>

\* C5 (recoverable skips): the loop visits every in-window expiration; a
\* skipped one adds no frame and no debug record and the later ones are
\* still processed; the result holds the frames of exactly the expirations
\* that succeeded, in iteration order; and the run halts with a message
\* exactly when none succeeded.
C5_RecoverableSkips ==
    /\ pc # "crashed"
    /\ LoopEnded =>
        /\ fetched = filtered_exps
        /\ Len(all_options) = Len(all_debug_info)
        /\ [k \in 1..Len(all_debug_info) |-> all_debug_info[k].option_exp]
               = Processed(filtered_exps, warnings)
        /\ \A k \in 1..Len(all_options) :
            /\ all_options[k] # <<>>
            /\ \A i \in 1..Len(all_options[k]) :
                all_options[k][i].option_expiration
                    = DateOf(all_debug_info[k].option_exp)
    /\ (pc = "stopped" /\ filtered_exps # <<>>) => all_options = <<>>
    /\ (pc \in {"displayed", "whatif"}) => all_options # <<>>

\* C5, what the code keeps once the loop has ended: every expiration was
\* visited and the frames are those of the processed ones, in order.
C5_FramesOfProcessed ==
    LoopEnded =>
        /\ fetched = filtered_exps
        /\ Len(all_options) = Len(all_debug_info)
        /\ [k \in 1..Len(all_debug_info) |-> all_debug_info[k].option_exp]
               = Processed(filtered_exps, warnings)

\* C5: a run that skipped its first expiration and processed the second.
C5_SkipThenProcess ==
    /\ LoopEnded
    /\ Len(filtered_exps) = 2
    /\ warnings = <<filtered_exps[1]>>
    /\ Len(all_options) = 1

\* C5: a run stopped by the criteria filter although an expiration succeeded.
C5_StoppedByFilter == pc = "stopped" /\ all_options # <<>>

-----------------------------------------------------------------------------
(* Scenarios *)

\* C6 (scenario consistency): a candidate with no projected dividend date
\* after the purchase date and on or before its expiration has the same
\* Hold and Called-Early outputs: zero payments, the same cash flow, total %
\* and annualized %, over the same day count with the early call at the
\* expiration.  This holds for the rows of the loop and for the what-if row.
C6_ScenarioConsistency ==
    /\ \A k \in 1..Len(all_options) :
        all_debug_info[k].divs_in_period = <<>> =>
            /\ all_debug_info[k].early_call.early_call_date
                   = all_debug_info[k].option_exp
            /\ all_debug_info[k].early_call.days_held_early
                   = DaysHeld(all_debug_info[k].option_exp, today)
            /\ \A i \in 1..Len(all_options[k]) :
                LET r == all_options[k][i]
                IN  /\ r.hold_payments = 0
                    /\ r.early_payments = 0
                    /\ r.early_cash = r.hold_cash
                    /\ r.early_total = r.hold_total
                    /\ r.early_annualized = r.hold_annualized
    /\ (whatif_results.status = "shown"
            /\ WhatIfDivsInPeriod(Localize(whatif.expiration)) = <<>>) =>
        /\ whatif_results.hold_payments = 0
        /\ whatif_results.early_payments = 0
        /\ whatif_results.early_cash = whatif_results.hold_cash
        /\ whatif_results.early_total = whatif_results.hold_total
        /\ whatif_results.early_annualized = whatif_results.hold_annualized
        /\ whatif.whatif_days_early = whatif.whatif_days_held

\* C6: a frame of the loop and a what-if row, both without a dividend in
\* the holding period, in a run where dividends are paid.
C6_NoDividendInPeriod ==
    /\ single_dividend > 0
    /\ \E k \in 1..Len(all_options) :
        /\ all_debug_info[k].divs_in_period = <<>>
        /\ all_options[k] # <<>>
    /\ whatif_results.status = "shown"
    /\ WhatIfDivsInPeriod(Localize(whatif.expiration)) = <<>>

\* The criteria of a row, from its cash flow, net debit and day count rather
\* than from its percentages: x% > 10 with x = 100 * cash / (shares * debit),
\* and the same for x * 365 / days.
CriteriaOf(r, days) ==
    LET cash == r.hold_cash \div shares
        debit == r.net_debit
    IN  /\ r.hold_cash = shares * cash
        /\ r.option_premium > 0
        /\ IF debit > 0 THEN 100 * cash > 10 * debit
           ELSE IF debit < 0 THEN 100 * cash < 10 * debit
           ELSE cash > 0
        /\ IF debit > 0 THEN 100 * cash * 365 > 10 * debit * days
           ELSE IF debit < 0 THEN 100 * cash * 365 < 10 * debit * days
           ELSE cash > 0

\* The day count of a row, from its two dates.
RowDays(r) ==
    Max(Days(Localize(r.option_expiration) - Localize(r.date_purchased)), 1)

\* The number of rows of the loop that meet the criteria.
MeetingRows ==
    Cardinality({i \in 1..Len(Concat(all_options)) :
        CriteriaOf(Concat(all_options)[i], RowDays(Concat(all_options)[i]))})

\* The final table has been built.
TableBuilt == TableShown \/ (pc = "stopped" /\ all_options # <<>>)

\* C7 (criteria correctness): the flag of every row of the final table and
\* of the what-if row is true exactly when the option premium is positive
\* and the Hold total % and annualized % are both above 10, on the numbers
\* before formatting; with the filter on, the table holds the flagged rows,
\* all of them and nothing else.
C7_CriteriaCorrect ==
    /\ TableBuilt =>
        /\ \A i \in 1..Len(final_df) :
            final_df[i].meet_criteria
                = CriteriaOf(final_df[i], RowDays(final_df[i]))
        /\ filter_criteria =>
            /\ \A i \in 1..Len(final_df) : final_df[i].meet_criteria
            /\ Len(final_df) = MeetingRows
        /\ ~filter_criteria => Len(final_df) = Len(Concat(all_options))
    /\ whatif_results.status = "shown" =>
        whatif_results.meet_criteria
            = CriteriaOf(whatif_results, RowDays(whatif_results))

\* C7: a filtered table that kept a row and dropped another, the dropped
\* one failing on the annualized % alone, followed by a what-if row.
C7_FilterKeepsAndDrops ==
    /\ pc = "whatif"
    /\ filter_criteria
    /\ final_df # <<>>
    /\ whatif_results.status = "shown"
    /\ \E i \in 1..Len(Concat(all_options)) :
        LET r == Concat(all_options)[i]
        IN  /\ r.option_premium > 0
            /\ FracGt(r.hold_total, 10)
            /\ ~FracGt(r.hold_annualized, 10)

-----------------------------------------------------------------------------
(* Screens and day counts *)

\* C8 (screener window): every row of the final table has an expiration
\* from 180 to 540 days after the purchase date and a strike from 0.6 to 0.9
\* of the stock price; no chain is requested for an expiration outside the
\* window, and none at all when no expiration is in the window.
C8_ScreenerWindow ==
    /\ TableBuilt =>
        \A i \in 1..Len(final_df) :
            LET r == final_df[i]
            IN  /\ 180 <= r.option_expiration - r.date_purchased
                /\ r.option_expiration - r.date_purchased <= 540
                /\ 10 * r.strike >= 6 * r.stock_price
                /\ 10 * r.strike <= 9 * r.stock_price
    /\ \A j \in 1..Len(fetched) :
        /\ 180 <= DateOf(fetched[j]) - purchase_date
        /\ DateOf(fetched[j]) - purchase_date <= 540
    /\ (pc = "stopped" /\ filtered_exps = <<>>) => fetched = <<>>

\* C8, what the code keeps: the window holds of the whole days of the time
\* elapsed between the two local midnights, and the strike band of every row.
C8_ElapsedDaysWindow ==
    /\ TableBuilt =>
        \A i \in 1..Len(final_df) :
            LET r == final_df[i]
                elapsed == Localize(r.option_expiration)
                               - Localize(r.date_purchased)
            IN  /\ 180 * 24 <= elapsed
                /\ elapsed < 541 * 24
                /\ 10 * r.strike >= 6 * r.stock_price
                /\ 10 * r.strike <= 9 * r.stock_price
    /\ \A j \in 1..Len(fetched) :
        /\ 180 * 24 <= fetched[j] - Localize(purchase_date)
        /\ fetched[j] - Localize(purchase_date) < 541 * 24
    /\ (pc = "stopped" /\ filtered_exps = <<>>) => fetched = <<>>

\* C8: a displayed row whose expiration is 541 calendar days after a
\* purchase made on standard time.
C8_RowAt541Days ==
    /\ TableShown
    /\ \E i \in 1..Len(final_df) :
        final_df[i].option_expiration - final_df[i].date_purchased = 541

\* C9 (day-held floor): a what-if expiration equal to the purchase date has
\* days_held = 1, and every day count by which a return is annualized, of
\* the loop or of the what-if, for the hold or the early call, is at least 1.
C9_DayHeldFloor ==
    /\ days_held # Undefined => days_held >= 1
    /\ \A k \in 1..Len(all_debug_info) :
        all_debug_info[k].early_call.days_held_early >= 1
    /\ whatif.status = "pressed" =>
        /\ whatif.whatif_days_held >= 1
        /\ whatif.whatif_days_early >= 1
        /\ whatif.expiration = purchase_date => whatif.whatif_days_held = 1
        /\ whatif.expiration <= purchase_date => whatif.whatif_days_early = 1

\* C9: what-if presses at the purchase date and before it.
C9_WhatIfAtPurchaseDate ==
    /\ whatif.status = "pressed"
    /\ whatif.expiration = purchase_date
    /\ whatif.whatif_days_held = 1
    /\ whatif_results.status = "shown"

-----------------------------------------------------------------------------
(* The worked example *)

\* Purchase on 2024-01-01, four quarterly payments of 0.80 ending on
\* 2023-12-15 (91 days apart), expiration 2024-10-01.
ExampleInputs ==
    /\ today = Localize(DayNum(2024, 1, 1))
    /\ last_known_div = Localize(DayNum(2023, 12, 15))
    /\ avg_days_between = 24 * 91
    /\ yearly_dividend = 320
    /\ div_freq = 4

ExampleFrame(k) ==
    ExampleInputs /\ all_debug_info[k].option_exp = Localize(DayNum(2024, 10, 1))

\* The dates, payments and cash flow of the example.
ExampleDividends(k) ==
    /\ [i \in 1..Len(all_debug_info[k].divs_in_period) |->
            DateOf(all_debug_info[k].divs_in_period[i])]
           = <<DayNum(2024, 3, 15), DayNum(2024, 6, 14), DayNum(2024, 9, 13)>>
    /\ \A i \in 1..Len(all_options[k]) :
        LET r == all_options[k][i]
        IN  /\ r.hold_payments = 3
            /\ r.hold_cash = shares * (r.option_premium + 3 * 80)

\* C10 (end-to-end example): on the example the program has days_held = 274,
\* projects 2024-03-15, 2024-06-14 and 2024-09-13, counts 3 Hold payments,
\* has a Hold cash flow per share of option_premium + 3 x 0.80 and an
\* annualized % of total % x 365 / 274.
C10_Example ==
    /\ (ExampleInputs /\ pc = "project"
            /\ option_exp = Localize(DayNum(2024, 10, 1))) => days_held = 274
    /\ \A k \in 1..Len(all_options) :
        ExampleFrame(k) =>
            /\ ExampleDividends(k)
            /\ \A i \in 1..Len(all_options[k]) :
                all_options[k][i].hold_annualized
                    = AnnualizedPct(all_options[k][i].hold_total, 274)

\* C10, what the code computes: the dates, the 3 payments and the cash flow
\* of the example, with a day count of 273.
C10_ExampleAt273 ==
    /\ (ExampleInputs /\ pc = "project"
            /\ option_exp = Localize(DayNum(2024, 10, 1))) => days_held = 273
    /\ \A k \in 1..Len(all_options) :
        ExampleFrame(k) =>
            /\ ExampleDividends(k)
            /\ \A i \in 1..Len(all_options[k]) :
                all_options[k][i].hold_annualized
                    = AnnualizedPct(all_options[k][i].hold_total, 273)

\* C10: the example has been evaluated.
C10_ExampleEvaluated ==
    \E k \in 1..Len(all_options) : ExampleFrame(k) /\ all_options[k] # <<>>

-----------------------------------------------------------------------------
(* Called early *)

\* The dates first + k * step, k >= 0, up to the horizon, for a step > 0.
RECURSIVE DatesUpTo(_, _, _)
DatesUpTo(first, step, horizon) ==
    IF first > horizon THEN {}
    ELSE {first} \cup DatesUpTo(first + step, step, horizon)

\* The projection of a processed expiration, from its debug record.
ProjectionOf(info) ==
    DatesUpTo(info.last_known_div + info.avg_days_between,
              info.avg_days_between, info.option_exp)

\* Its dates in the holding window: after the purchase, up to the expiration.
HoldingWindow(info) == {d \in ProjectionOf(info) : d > today}

\* C11 (called-early payment count): for every candidate with a projected
\* dividend date in its holding window the early-call date is the last of
\* those dates, the Called-Early payments are the in-window dates strictly
\* before it, one fewer than the Hold payments, and days_held_early is at
\* most days_held; dates projected on or before the purchase date count in
\* neither scenario.  The what-if row follows the same rule.
C11_CalledEarlyCount ==
    /\ \A k \in 1..Len(all_debug_info) :
        LET info == all_debug_info[k]
            window == HoldingWindow(info)
        IN  (info.avg_days_between > 0 /\ window # {}) =>
                /\ info.early_call.early_call_date \in window
                /\ \A d \in window : d <= info.early_call.early_call_date
                /\ info.early_call.expected_payments_early =
                       Cardinality({d \in window :
                                       d < info.early_call.early_call_date})
                /\ info.early_call.days_held_early
                       <= DaysHeld(info.option_exp, today)
                /\ \A i \in 1..Len(all_options[k]) :
                    /\ all_options[k][i].hold_payments = Cardinality(window)
                    /\ all_options[k][i].early_payments
                           = info.early_call.expected_payments_early
                    /\ all_options[k][i].early_payments
                           = all_options[k][i].hold_payments - 1
    /\ (whatif_results.status = "shown"
            /\ whatif_results.hold_payments > 0) =>
        /\ whatif_results.early_payments = whatif_results.hold_payments - 1
        /\ whatif.whatif_days_early <= whatif.whatif_days_held

\* C11: a processed candidate with two or more payments in its holding
\* window whose projection also has a date on or before the purchase date.
C11_ProjectionStartsBeforePurchase ==
    \E k \in 1..Len(all_debug_info) :
        LET info == all_debug_info[k]
        IN  /\ info.avg_days_between > 0
            /\ all_options[k] # <<>>
            /\ Cardinality(HoldingWindow(info)) >= 2
            /\ \E d \in ProjectionOf(info) : d <= today

=============================================================================
